---- MODULE Spec2Model ----
(***************************************************************************)
(* Model of src/src/data/power.rs: the IOReport energy subscription, the   *)
(* channel iterator, the PowerData facade (new / refresh / drop), the      *)
(* fallback estimator and the pmset power-mode probe.                      *)
(*                                                                         *)
(* Native CoreFoundation objects are rows of the table `handles`: the row  *)
(* index is the object's reference, `kind` says what created it and `rel`  *)
(* counts the CFRelease calls made on it.                                  *)
(*                                                                         *)
(* Numbers: energy (f64 joules) is held in nanojoules, time in             *)
(* milliseconds, power (f32 watts) in microwatts rounded to the 24-bit     *)
(* significand of an f32.  Text (channel names, unit labels, pmset output) *)
(* is a sequence of one-character strings.                                 *)
(***************************************************************************)
EXTENDS Integers, Sequences, FiniteSets, TLC

VARIABLES
    phase,      \* "uninit" (before PowerData::new), "live", "dropped"
    pd,         \* the PowerData struct
    handles,    \* the native objects created so far and their release counts
    now,        \* the monotonic clock (Instant::now), in ms
    calls,      \* how often each native entry point / step has been entered
    last        \* what the most recent new()/refresh() took as input and did

vars == <<phase, pd, handles, now, calls, last>>

----------------------------------------------------------------------------
\* Bounds of the model

\* refresh() calls per facade lifetime
MaxRefresh == 2
\* refresh() calls per facade lifetime when the inputs are generated
MaxGenRefresh == 1
\* elements of a generated channel list
MaxChannels == 2
\* fragments a generated channel name is concatenated from
MaxNameParts == 2
\* fragments a generated pmset output is concatenated from
MaxTextParts == 2

----------------------------------------------------------------------------
\* Program constants

\* base_power = 2.0 W, in microwatts
BasePowerUW == 2000000
\* max_cpu_power = 15.0 W, in microwatts
MaxCpuPowerUW == 15000000
\* gpu_power = 1.0 W in the fallback estimate, in microwatts
GpuFallbackUW == 1000000
\* std::thread::sleep(Duration::from_millis(50))
SleepMs == 50
\* elapsed.as_secs_f64().max(0.001), in ms
MinElapsedMs == 1
\* significand bits of an f32 (the `as f32` casts)
F32Bits == 24
\* let mut buf = [0i8; 128]
CStrBuf == 128

----------------------------------------------------------------------------
\* Text

Upper == <<"A","B","C","D","E","F","G","H","I","J","K","L","M",
           "N","O","P","Q","R","S","T","U","V","W","X","Y","Z">>
LowerLetters == <<"a","b","c","d","e","f","g","h","i","j","k","l","m",
                  "n","o","p","q","r","s","t","u","v","w","x","y","z">>

\* char::to_lowercase on ASCII
LowerChar(c) ==
    IF \E i \in 1..26 : Upper[i] = c
    THEN LowerLetters[CHOOSE i \in 1..26 : Upper[i] = c]
    ELSE c

\* str::to_lowercase
ToLowercase(s) == [i \in 1..Len(s) |-> LowerChar(s[i])]

\* str::contains(pat)
Contains(s, pat) ==
    \E i \in 0..(Len(s) - Len(pat)) : SubSeq(s, i + 1, i + Len(pat)) = pat

IsSpace(c) == c \in {" ", "\n", "\t"}

\* str::trim
RECURSIVE TrimStart(_)
TrimStart(s) == IF s # <<>> /\ IsSpace(Head(s)) THEN TrimStart(Tail(s)) ELSE s
RECURSIVE TrimEnd(_)
TrimEnd(s) ==
    IF s # <<>> /\ IsSpace(s[Len(s)]) THEN TrimEnd(SubSeq(s, 1, Len(s) - 1)) ELSE s
Trim(s) == TrimEnd(TrimStart(s))

RECURSIVE Concat(_)
Concat(parts) == IF parts = <<>> THEN <<>> ELSE Head(parts) \o Concat(Tail(parts))

\* all sequences over S of length at most n
SeqsUpTo(S, n) == UNION {[1..k -> S] : k \in 0..n}

\* a null CFStringRef (no channel name holds this character)
NullStr == <<"NULL">>

\* from_cfstr: a null reference, or a string that does not fit the buffer
\* with its terminator, decodes as the empty string
FromCfstr(val) ==
    IF val = NullStr THEN <<>>
    ELSE IF Len(val) + 1 > CStrBuf THEN <<>>
    ELSE val

----------------------------------------------------------------------------
\* Numbers

Abs(x) == IF x < 0 THEN 0 - x ELSE x

RECURSIVE Pow2(_)
Pow2(k) == IF k = 0 THEN 1 ELSE 2 * Pow2(k - 1)

\* binary digits of a >= 0 beyond the f32 significand
RECURSIVE ExtraBits(_)
ExtraBits(a) == IF a < Pow2(F32Bits) THEN 0 ELSE 1 + ExtraBits(a \div 2)

\* `x as f32`: round to a 24-bit significand, ties to even
AsF32(x) ==
    LET a   == Abs(x)
        q   == Pow2(ExtraBits(a))
        lo  == (a \div q) * q
        rem == a - lo
        r   == IF 2 * rem < q THEN lo
               ELSE IF 2 * rem > q THEN lo + q
               ELSE IF (lo \div q) % 2 = 0 THEN lo ELSE lo + q
    IN  IF x < 0 THEN 0 - r ELSE r

\* f32 addition
F32Add(a, b) == AsF32(a + b)

\* a / b for b > 0, rounded to the nearest unit
RoundDiv(a, b) ==
    LET whole == Abs(a) \div b
        rest  == Abs(a) % b
        q     == IF 2 * rest >= b THEN whole + 1 ELSE whole
    IN  IF a < 0 THEN 0 - q ELSE q

U_mJ == <<"m", "J">>
U_uJ == <<"u", "J">>
U_nJ == <<"n", "J">>

\* EnergyToJoules with the default arm dividing by 1_000.0 like the "mJ" arm
EnergyToJoulesDefaultMilli(value, unit) ==
    IF unit = U_mJ THEN value * 1000000
    ELSE IF unit = U_uJ THEN value * 1000
    ELSE IF unit = U_nJ THEN value
    ELSE value * 1000000

\* energy_to_joules, in nanojoules
EnergyToJoules(value, unit) ==
    IF unit = U_mJ THEN value * 1000000
    ELSE IF unit = U_uJ THEN value * 1000
    ELSE IF unit = U_nJ THEN value
    ELSE value * 1000

\* ClampSeconds with the floor written as .max(0.01)
ClampSecondsTenMs(elapsed) == IF elapsed > 10 THEN elapsed ELSE 10

\* elapsed.as_secs_f64().max(0.001), in ms
ClampSeconds(elapsed) == IF elapsed > MinElapsedMs THEN elapsed ELSE MinElapsedMs

\* (energy / seconds) as f32: nJ / ms = microwatts
WattsOf(energy, seconds) == AsF32(RoundDiv(energy, seconds))

----------------------------------------------------------------------------
\* Native objects

None == 0
NoTime == 0 - 1
NoSub == [subscription |-> None, channels |-> None]

\* a Create/Copy call that succeeded: a new object with no release yet
Acquire(h, kind) == Append(h, [kind |-> kind, rel |-> 0])
\* CFRelease
CFRelease(h, ref) == [h EXCEPT ![ref].rel = @ + 1]

\* cfdict_get_val: builds the key string, looks the key up, releases the key
CfdictGetVal(h, present) ==
    LET h1 == Acquire(h, "cfstr")
    IN  [handles |-> CFRelease(h1, Len(h1)), some |-> present]

\* SubscriptionNew without the CFRelease(channels) when the subscription is null
SubscriptionNewKeepingChannels(h, nat) ==
    LET h1    == Acquire(h, "cfstr")
        group == Len(h1)
        h2    == IF nat.chan THEN Acquire(h1, "chan") ELSE h1
        chan  == Len(h2)
        h3    == CFRelease(h2, group)
    IN  IF ~nat.chan THEN [handles |-> h3, sub |-> NoSub, stage |-> "chan"]
        ELSE
        LET got == CfdictGetVal(h3, nat.key)
        IN  IF ~got.some
            THEN [handles |-> CFRelease(got.handles, chan), sub |-> NoSub,
                  stage |-> "key"]
            ELSE
            LET h4       == IF nat.copy THEN Acquire(got.handles, "channels")
                            ELSE got.handles
                channels == Len(h4)
                h5       == CFRelease(h4, chan)
            IN  IF ~nat.copy THEN [handles |-> h5, sub |-> NoSub, stage |-> "copy"]
                ELSE
                LET h6 == IF nat.sub THEN Acquire(h5, "subscription") ELSE h5
                IN  IF ~nat.sub
                    THEN [handles |-> h6, sub |-> NoSub, stage |-> "sub"]
                    ELSE [handles |-> h6,
                          sub |-> [subscription |-> Len(h6), channels |-> channels],
                          stage |-> "ok"]

\* IOReportSubscription::new; nat says which native calls succeed, `stage` is
\* the native call that ended it
SubscriptionNew(h, nat) ==
    LET h1    == Acquire(h, "cfstr")
        group == Len(h1)
        h2    == IF nat.chan THEN Acquire(h1, "chan") ELSE h1
        chan  == Len(h2)
        h3    == CFRelease(h2, group)
    IN  IF ~nat.chan THEN [handles |-> h3, sub |-> NoSub, stage |-> "chan"]
        ELSE
        LET got == CfdictGetVal(h3, nat.key)
        IN  IF ~got.some
            THEN [handles |-> CFRelease(got.handles, chan), sub |-> NoSub,
                  stage |-> "key"]
            ELSE
            LET h4       == IF nat.copy THEN Acquire(got.handles, "channels")
                            ELSE got.handles
                channels == Len(h4)
                h5       == CFRelease(h4, chan)
            IN  IF ~nat.copy THEN [handles |-> h5, sub |-> NoSub, stage |-> "copy"]
                ELSE
                LET h6 == IF nat.sub THEN Acquire(h5, "subscription") ELSE h5
                IN  IF ~nat.sub
                    THEN [handles |-> CFRelease(h6, channels), sub |-> NoSub,
                          stage |-> "sub"]
                    ELSE [handles |-> h6,
                          sub |-> [subscription |-> Len(h6), channels |-> channels],
                          stage |-> "ok"]

\* which of the native calls of IOReportSubscription::new succeed
NatOutcomes == [chan : BOOLEAN, key : BOOLEAN, copy : BOOLEAN, sub : BOOLEAN]
NatAllOk    == [chan |-> TRUE, key |-> TRUE, copy |-> TRUE, sub |-> TRUE]
NatNoChan   == [chan |-> FALSE, key |-> FALSE, copy |-> FALSE, sub |-> FALSE]

\* IOReportSubscription::sample
Sample(h, ok) ==
    IF ok THEN [handles |-> Acquire(h, "sample"), sample |-> Len(h) + 1]
    ELSE [handles |-> h, sample |-> None]

\* impl Drop for IOReportSubscription
SubscriptionDrop(h, sub) == CFRelease(h, sub.channels)

----------------------------------------------------------------------------
\* Channel records and the iterator over a delta

NullItem == [null |-> TRUE, name |-> NullStr, unit |-> NullStr, value |-> 0]
Item(name, unit, value) ==
    [null |-> FALSE, name |-> name, unit |-> unit, value |-> value]

\* what IOReportCreateSamplesDelta returns: nothing, or a dictionary that may
\* hold the "IOReportChannels" array
NoDelta == [ok |-> FALSE, has_channels |-> FALSE, items |-> <<>>]
Delta(has_channels, items) ==
    [ok |-> TRUE, has_channels |-> has_channels, items |-> items]

\* IteratorNext that answers None at a null element instead of moving on
IteratorNextStopping(it) ==
    IF it.index >= it.count THEN [some |-> FALSE, it |-> it, data |-> NullItem]
    ELSE
    LET item == it.items[it.index + 1]
        it2  == [it EXCEPT !.index = @ + 1]
    IN  IF item.null THEN [some |-> FALSE, it |-> it2, data |-> NullItem]
        ELSE [some |-> TRUE, it |-> it2,
              data |-> [name  |-> FromCfstr(item.name),
                        unit  |-> Trim(FromCfstr(item.unit)),
                        value |-> item.value]]

\* IOReportIterator::next
RECURSIVE IteratorNext(_)
IteratorNext(it) ==
    IF it.index >= it.count THEN [some |-> FALSE, it |-> it, data |-> NullItem]
    ELSE
    LET item == it.items[it.index + 1]
        it2  == [it EXCEPT !.index = @ + 1]
    IN  IF item.null THEN IteratorNext(it2)
        ELSE [some |-> TRUE, it |-> it2,
              data |-> [name  |-> FromCfstr(item.name),
                        unit  |-> Trim(FromCfstr(item.unit)),
                        value |-> item.value]]

S_cpu == <<"c", "p", "u">>
S_gpu == <<"g", "p", "u">>
S_ane == <<"a", "n", "e">>

\* DomainOf with the first test written without its `!name.contains("gpu")`
DomainOfLoose(channel_name) ==
    LET name == ToLowercase(channel_name)
    IN  IF Contains(name, S_cpu) THEN "cpu"
        ELSE IF Contains(name, S_gpu) THEN "gpu"
        ELSE IF Contains(name, S_ane) THEN "ane"
        ELSE "none"

\* the domain a channel's energy is added to (the if / else-if chain)
DomainOf(channel_name) ==
    LET name == ToLowercase(channel_name)
    IN  IF Contains(name, S_cpu) /\ ~Contains(name, S_gpu) THEN "cpu"
        ELSE IF Contains(name, S_gpu) THEN "gpu"
        ELSE IF Contains(name, S_ane) THEN "ane"
        ELSE "none"

\* one turn of the `for channel in iter` body
Accumulate(acc, channel) ==
    LET joules == EnergyToJoules(channel.value, channel.unit)
        dom    == DomainOf(channel.name)
    IN  IF dom = "none" THEN acc ELSE [acc EXCEPT ![dom] = @ + joules]

\* the `for channel in iter` loop
RECURSIVE SumChannels(_, _)
SumChannels(it, acc) ==
    LET n == IteratorNext(it)
    IN  IF ~n.some THEN acc ELSE SumChannels(n.it, Accumulate(acc, n.data))

ZeroEnergy == [cpu |-> 0, gpu |-> 0, ane |-> 0]

\* the channel records the `for channel in iter` loop is handed, in order
RECURSIVE VisitChannels(_, _)
VisitChannels(it, seen) ==
    LET n == IteratorNext(it)
    IN  IF ~n.some THEN seen ELSE VisitChannels(n.it, Append(seen, n.data))

----------------------------------------------------------------------------
\* The PowerData facade.  The operators below take and return a machine
\* record m = [pd, handles, now, calls, last].

PowerModes == {"LowPower", "Automatic", "HighPerformance", "Unknown"}

W_lowpowermode  == <<"l","o","w","p","o","w","e","r","m","o","d","e">>
W_highpowermode == <<"h","i","g","h","p","o","w","e","r","m","o","d","e">>
LowMarker  == W_lowpowermode \o <<" ", "1">>
HighMarker == W_highpowermode \o <<" ", "1">>

\* a byte of stdout that is not part of any valid UTF-8 sequence
BadByte == "\\xFF"
\* U+FFFD
ReplacementChar == "\\uFFFD"

\* String::from_utf8_lossy
FromUtf8Lossy(bytes) ==
    [i \in 1..Len(bytes) |-> IF bytes[i] = BadByte THEN ReplacementChar ELSE bytes[i]]

\* Command::output(): Err (the command could not be launched) or Ok(stdout)
NoLaunch == [launched |-> FALSE, stdout |-> <<>>]
Ran(bytes) == [launched |-> TRUE, stdout |-> bytes]

\* ClassifyStdout with the two marker tests in the other order
ClassifyHighFirst(stdout) ==
    IF Contains(stdout, HighMarker) THEN "HighPerformance"
    ELSE IF Contains(stdout, LowMarker) THEN "LowPower"
    ELSE "Automatic"

\* the if / else-if chain on stdout
ClassifyStdout(stdout) ==
    IF Contains(stdout, LowMarker) THEN "LowPower"
    ELSE IF Contains(stdout, HighMarker) THEN "HighPerformance"
    ELSE "Automatic"

\* RefreshPowerMode with an else arm that stores Unknown when pmset did not run
RefreshPowerModeResetting(m, out) ==
    LET m1 == [m EXCEPT !.calls.probe = @ + 1,
                        !.last.probes = @ + 1,
                        !.last.steps = Append(@, "probe"),
                        !.last.pmset = out]
    IN  IF out.launched
        THEN [m1 EXCEPT !.calls.launched = @ + 1,
                        !.pd.power_mode = ClassifyStdout(FromUtf8Lossy(out.stdout))]
        ELSE [m1 EXCEPT !.pd.power_mode = "Unknown"]

\* PowerData::refresh_power_mode
RefreshPowerMode(m, out) ==
    LET m1 == [m EXCEPT !.calls.probe = @ + 1,
                        !.last.probes = @ + 1,
                        !.last.steps = Append(@, "probe"),
                        !.last.pmset = out]
    IN  IF out.launched
        THEN [m1 EXCEPT !.calls.launched = @ + 1,
                        !.pd.power_mode = ClassifyStdout(FromUtf8Lossy(out.stdout))]
        ELSE m1

\* FallbackPowerEstimate without `self.ane_power = 0.0`
FallbackKeepingAne(m, usage) ==
    LET cpu == AsF32(BasePowerUW + (usage * MaxCpuPowerUW) \div 100)
    IN  [m EXCEPT !.now = @ + SleepMs,
                  !.last.usage = usage,
                  !.last.fallback = TRUE,
                  !.pd.cpu_power = cpu,
                  !.pd.gpu_power = GpuFallbackUW,
                  !.pd.total_system_power = F32Add(cpu, GpuFallbackUW)]

\* FallbackPowerEstimate without the `/ 100.0` that turns percent into a fraction
FallbackUnscaled(m, usage) ==
    LET cpu == AsF32(BasePowerUW + usage * MaxCpuPowerUW)
    IN  [m EXCEPT !.now = @ + SleepMs,
                  !.last.usage = usage,
                  !.last.fallback = TRUE,
                  !.pd.cpu_power = cpu,
                  !.pd.gpu_power = GpuFallbackUW,
                  !.pd.ane_power = 0,
                  !.pd.total_system_power = F32Add(cpu, GpuFallbackUW)]

\* PowerData::fallback_power_estimate; usage is the mean cpu_usage() in percent
FallbackPowerEstimate(m, usage) ==
    LET cpu == AsF32(BasePowerUW + (usage * MaxCpuPowerUW) \div 100)
    IN  [m EXCEPT !.now = @ + SleepMs,
                  !.last.usage = usage,
                  !.last.fallback = TRUE,
                  !.pd.cpu_power = cpu,
                  !.pd.gpu_power = GpuFallbackUW,
                  !.pd.ane_power = 0,
                  !.pd.total_system_power = F32Add(cpu, GpuFallbackUW)]

\* IOReportIterator::new followed by the loop and the iterator's drop
DecodeDelta(h, delta_ref, d) ==
    LET got == CfdictGetVal(h, d.has_channels)
    IN  IF got.some
        THEN [handles |-> CFRelease(got.handles, delta_ref),
              energy  |-> SumChannels([items |-> d.items, index |-> 0,
                                       count |-> Len(d.items)], ZeroEnergy),
              visited |-> VisitChannels([items |-> d.items, index |-> 0,
                                         count |-> Len(d.items)], <<>>)]
        ELSE [handles |-> got.handles, energy |-> ZeroEnergy, visited |-> <<>>]

\* PowerData::calculate_power_from_delta
CalculatePowerFromDelta(m, prev, current, elapsed, in) ==
    IF ~in.delta.ok THEN FallbackPowerEstimate(m, in.usage)
    ELSE
    LET h1      == Acquire(m.handles, "delta")
        dec     == DecodeDelta(h1, Len(h1), in.delta)
        seconds == ClampSeconds(elapsed)
        cpu     == WattsOf(dec.energy.cpu, seconds)
        gpu     == WattsOf(dec.energy.gpu, seconds)
        ane     == WattsOf(dec.energy.ane, seconds)
    IN  [m EXCEPT !.handles = dec.handles,
                  !.last.delta = in.delta,
                  !.last.elapsed = elapsed,
                  !.last.aggregated = TRUE,
                  !.last.energy = dec.energy,
                  !.last.seconds = seconds,
                  !.last.visited = dec.visited,
                  !.pd.cpu_power = cpu,
                  !.pd.gpu_power = gpu,
                  !.pd.ane_power = ane,
                  !.pd.total_system_power = F32Add(F32Add(cpu, gpu), ane)]

\* StoreBaseline that also reports the fallback estimate
StoreBaselineWithEstimate(m, current_sample, in) ==
    LET m1 == FallbackPowerEstimate(m, in.usage)
    IN  [m1 EXCEPT !.pd.last_sample = current_sample,
                   !.pd.last_sample_time = m1.now,
                   !.last.captured = m.last.sampled_at,
                   !.last.path = "baseline"]

\* StoreBaseline without `self.last_sample_time = Some(Instant::now())`
StoreBaselineWithoutTime(m, current_sample, in) ==
    [m EXCEPT !.pd.last_sample = current_sample,
              !.last.captured = m.last.sampled_at,
              !.last.path = "baseline"]

\* the let-else arm taken when no previous sample is retained
StoreBaseline(m, current_sample, in) ==
    [m EXCEPT !.pd.last_sample = current_sample,
              !.pd.last_sample_time = m.now,
              !.last.captured = m.last.sampled_at,
              !.last.path = "baseline"]

\* RefreshPowerMetrics that tries to open the subscription again when it is absent
RefreshPowerMetricsReopening(m0, in) ==
    LET m == [m0 EXCEPT !.last.steps = Append(@, "metrics")] IN
    IF m.pd.subscription = NoSub
    THEN LET r == SubscriptionNew(m.handles, NatAllOk)
         IN  FallbackPowerEstimate([m EXCEPT !.handles = r.handles,
                                             !.calls.open = @ + 1,
                                             !.pd.subscription = r.sub,
                                             !.last.path = "nosub"], in.usage)
    ELSE FallbackPowerEstimate([m EXCEPT !.last.path = "samplefail"], in.usage)

\* RefreshPowerMetrics that gives up the retained snapshot when sampling fails
RefreshPowerMetricsForgetting(m0, in) ==
    LET m == [m0 EXCEPT !.last.steps = Append(@, "metrics")] IN
    IF m.pd.subscription = NoSub
    THEN FallbackPowerEstimate([m EXCEPT !.last.path = "nosub"], in.usage)
    ELSE
    LET s  == Sample(m.handles, in.sample_ok)
        m1 == [m EXCEPT !.handles = s.handles, !.calls.sample = @ + 1,
                        !.last.sampled_at = IF s.sample = None THEN NoTime ELSE m.now]
    IN  IF s.sample = None
        THEN FallbackPowerEstimate(
                 [m1 EXCEPT !.last.path = "samplefail",
                            !.handles = IF m1.pd.last_sample = None THEN @
                                        ELSE CFRelease(@, m1.pd.last_sample),
                            !.pd.last_sample = None,
                            !.pd.last_sample_time = NoTime], in.usage)
        ELSE IF m1.pd.last_sample = None \/ m1.pd.last_sample_time = NoTime
        THEN StoreBaseline(m1, s.sample, in)
        ELSE
        LET prev_sample == m1.pd.last_sample
            elapsed     == m1.now - m1.pd.last_sample_time
            m2 == CalculatePowerFromDelta([m1 EXCEPT !.last.path = "delta"],
                                          prev_sample, s.sample, elapsed, in)
            m3 == [m2 EXCEPT !.handles = CFRelease(@, prev_sample)]
        IN  [m3 EXCEPT !.pd.last_sample = s.sample,
                       !.pd.last_sample_time = m3.now,
                       !.last.captured = m1.last.sampled_at]

\* RefreshPowerMetrics without the CFRelease of the previous sample
RefreshPowerMetricsKeepingPrev(m0, in) ==
    LET m == [m0 EXCEPT !.last.steps = Append(@, "metrics")] IN
    IF m.pd.subscription = NoSub
    THEN FallbackPowerEstimate([m EXCEPT !.last.path = "nosub"], in.usage)
    ELSE
    LET s  == Sample(m.handles, in.sample_ok)
        m1 == [m EXCEPT !.handles = s.handles, !.calls.sample = @ + 1,
                        !.last.sampled_at = IF s.sample = None THEN NoTime ELSE m.now]
    IN  IF s.sample = None
        THEN FallbackPowerEstimate([m1 EXCEPT !.last.path = "samplefail"], in.usage)
        ELSE IF m1.pd.last_sample = None \/ m1.pd.last_sample_time = NoTime
        THEN StoreBaseline(m1, s.sample, in)
        ELSE
        LET prev_sample == m1.pd.last_sample
            elapsed     == m1.now - m1.pd.last_sample_time
            m2 == CalculatePowerFromDelta([m1 EXCEPT !.last.path = "delta"],
                                          prev_sample, s.sample, elapsed, in)
        IN  [m2 EXCEPT !.pd.last_sample = s.sample,
                       !.pd.last_sample_time = m2.now,
                       !.last.captured = m1.last.sampled_at]

\* PowerData::refresh_power_metrics
RefreshPowerMetrics(m0, in) ==
    LET m == [m0 EXCEPT !.last.steps = Append(@, "metrics")] IN
    IF m.pd.subscription = NoSub
    THEN FallbackPowerEstimate([m EXCEPT !.last.path = "nosub"], in.usage)
    ELSE
    LET s  == Sample(m.handles, in.sample_ok)
        m1 == [m EXCEPT !.handles = s.handles, !.calls.sample = @ + 1,
                        !.last.sampled_at = IF s.sample = None THEN NoTime ELSE m.now]
    IN  IF s.sample = None
        THEN FallbackPowerEstimate([m1 EXCEPT !.last.path = "samplefail"], in.usage)
        ELSE IF m1.pd.last_sample = None \/ m1.pd.last_sample_time = NoTime
        THEN StoreBaseline(m1, s.sample, in)
        ELSE
        LET prev_sample == m1.pd.last_sample
            elapsed     == m1.now - m1.pd.last_sample_time
            m2 == CalculatePowerFromDelta([m1 EXCEPT !.last.path = "delta"],
                                          prev_sample, s.sample, elapsed, in)
            m3 == [m2 EXCEPT !.handles = CFRelease(@, prev_sample)]
        IN  [m3 EXCEPT !.pd.last_sample = s.sample,
                       !.pd.last_sample_time = m3.now,
                       !.last.captured = m1.last.sampled_at]

\* the record of one call: `before` is the facade as the call found it,
\* `energy` and `visited` are the joule sums and the channel records of its
\* aggregation and `seconds` its divisor, `open` is how far the call's
\* IOReportSubscription::new went, `sampled_at` is the clock when the call's snapshot was taken
\* and `captured` / `prior_captured` are the clock when the snapshot retained
\* after / before the call was taken
FreshLast(op, before) ==
    [op |-> op, before |-> before, path |-> "none", ret |-> "none", probes |-> 0,
     steps |-> <<>>,
     fallback |-> FALSE, aggregated |-> FALSE,
     usage |-> 0, delta |-> NoDelta, elapsed |-> 0, pmset |-> NoLaunch,
     energy |-> ZeroEnergy, visited |-> <<>>, seconds |-> 0, open |-> "none",
     sampled_at |-> NoTime, captured |-> NoTime, prior_captured |-> NoTime]

\* the record of a call on machine m, which retains what m retains
CallRecord(m, op) ==
    [FreshLast(op, m.pd) EXCEPT !.captured = m.last.captured,
                                !.prior_captured = m.last.captured]

\* refresh that returns the metrics step's failure with `?` before the probe
RefreshCallPropagating(m, in) ==
    LET m0 == [m EXCEPT !.last = CallRecord(m, "refresh"), !.calls.refresh = @ + 1]
        m1 == RefreshPowerMetrics(m0, in)
    IN  IF m1.last.fallback THEN [m1 EXCEPT !.last.ret = "Err"]
        ELSE [RefreshPowerMode(m1, in.pmset) EXCEPT !.last.ret = "Ok"]

\* PowerData::refresh
RefreshCall(m, in) ==
    LET m0 == [m EXCEPT !.last = CallRecord(m, "refresh"), !.calls.refresh = @ + 1]
        m1 == RefreshPowerMetrics(m0, in)
        m2 == RefreshPowerMode(m1, in.pmset)
    IN  [m2 EXCEPT !.last.ret = "Ok"]

\* PowerData::new
NewCall(m, in) ==
    LET m0 == [m EXCEPT !.last = CallRecord(m, "new"), !.calls.open = @ + 1]
        r  == SubscriptionNew(m0.handles, in.nat)
        s  == IF r.sub = NoSub THEN [handles |-> r.handles, sample |-> None]
              ELSE Sample(r.handles, in.sample_ok)
        at == IF s.sample = None THEN NoTime ELSE m0.now
        m1 == [m0 EXCEPT !.handles = s.handles,
                         !.calls.sample = IF r.sub = NoSub THEN @ ELSE @ + 1,
                         !.last.open = r.stage,
                         !.last.sampled_at = at,
                         !.last.captured = at,
                         !.pd = [subscription       |-> r.sub,
                                 last_sample        |-> s.sample,
                                 last_sample_time   |-> IF s.sample = None THEN NoTime
                                                        ELSE m0.now,
                                 cpu_power          |-> 0,
                                 gpu_power          |-> 0,
                                 ane_power          |-> 0,
                                 total_system_power |-> 0,
                                 power_mode         |-> "Unknown"]]
        m2 == RefreshPowerMode(m1, in.pmset)
    IN  [m2 EXCEPT !.last.ret = "Ok"]

\* impl Drop for PowerData, then the drop of its fields
DropCall(m) ==
    LET h1 == IF m.pd.last_sample # None THEN CFRelease(m.handles, m.pd.last_sample)
              ELSE m.handles
        h2 == IF m.pd.subscription # NoSub THEN SubscriptionDrop(h1, m.pd.subscription)
              ELSE h1
    IN  [m EXCEPT !.handles = h2, !.last = CallRecord(m, "drop")]

----------------------------------------------------------------------------
\* Inputs: what the native layer, the CPU utilisation source and pmset do

U_empty  == <<>>
U_padded == <<" ", "m", "J", " ">>

N_CpuEnergy        == <<"C","P","U"," ","E","n","e","r","g","y">>
N_GpuEnergy        == <<"G","P","U"," ","E","n","e","r","g","y">>
N_CpuGpuCombined   == <<"C","P","U","/","G","P","U"," ","C","o","m","b","i","n","e","d">>
N_Ane              == <<"A","N","E","0">>
N_DisplayBacklight == <<"D","i","s","p","l","a","y"," ","B","a","c","k","l","i","g","h","t">>

\* mean CPU utilisation in percent
Usages == {0, 37, 100}
\* time between two calls, in ms
Gaps == {0, 7}

\* what IOReportCreateSamplesDelta returns in the lifecycle specification
RepDeltas ==
    { Delta(FALSE, <<>>),
      Delta(TRUE, <<Item(N_CpuEnergy, U_mJ, 3), Item(N_GpuEnergy, U_padded, 500),
                    Item(N_Ane, U_nJ, 1000000)>>),
      Delta(TRUE, <<NullItem, Item(N_CpuEnergy, U_uJ, 0 - 4000),
                    Item(N_DisplayBacklight, U_empty, 9000)>>) }

\* what pmset -g does in the lifecycle specification
RepOutputs ==
    { NoLaunch,
      Ran(<<"\n">>),
      Ran(LowMarker),
      Ran(<<BadByte>> \o HighMarker) }

NewInputs(Nats, Outs) ==
    UNION {{[nat |-> n, sample_ok |-> s, pmset |-> o] :
                s \in (IF n = NatAllOk THEN BOOLEAN ELSE {FALSE}), o \in Outs} :
           n \in Nats}

\* the inputs a refresh() of facade p can consume; those it cannot consume
\* are fixed
RefreshInputs(p, Deltas, Us, Outs) ==
    LET Mk(s, d, u) == {[sample_ok |-> s, delta |-> d, usage |-> u, pmset |-> o] : o \in Outs}
    IN  IF p.subscription = NoSub
        THEN UNION {Mk(FALSE, NoDelta, u) : u \in Us}
        ELSE UNION {Mk(FALSE, NoDelta, u) : u \in Us}
             \cup (IF p.last_sample = None
                   THEN Mk(TRUE, NoDelta, 0)
                   ELSE UNION {Mk(TRUE, NoDelta, u) : u \in Us}
                        \cup UNION {Mk(TRUE, d, 0) : d \in Deltas})

----------------------------------------------------------------------------
\* The state machine

Machine == [pd |-> pd, handles |-> handles, now |-> now, calls |-> calls, last |-> last]

Becomes(m) ==
    /\ pd' = m.pd
    /\ handles' = m.handles
    /\ now' = m.now
    /\ calls' = m.calls
    /\ last' = m.last

Init ==
    /\ phase = "uninit"
    /\ pd = [subscription |-> NoSub, last_sample |-> None, last_sample_time |-> NoTime,
             cpu_power |-> 0, gpu_power |-> 0, ane_power |-> 0,
             total_system_power |-> 0, power_mode |-> "Unknown"]
    /\ handles = <<>>
    /\ now = 0
    /\ calls = [open |-> 0, sample |-> 0, probe |-> 0, launched |-> 0, refresh |-> 0]
    /\ last = FreshLast("none", pd)

\* PowerData::new()
Construct(Ins) ==
    /\ phase = "uninit"
    /\ \E in \in Ins : Becomes(NewCall(Machine, in))
    /\ phase' = "live"

\* PowerData::refresh(), called some time after the previous call returned
Refresh(limit, Gs, Deltas, Us, Outs) ==
    /\ phase = "live"
    /\ calls.refresh < limit
    /\ \E gap \in Gs : \E in \in RefreshInputs(pd, Deltas, Us, Outs) :
          Becomes(RefreshCall([Machine EXCEPT !.now = @ + gap], in))
    /\ phase' = "live"

\* the facade is discarded
Teardown ==
    /\ phase = "live"
    /\ Becomes(DropCall(Machine))
    /\ phase' = "dropped"

Next ==
    \/ Construct(NewInputs(NatOutcomes, RepOutputs))
    \/ Refresh(MaxRefresh, Gaps, RepDeltas, Usages, RepOutputs)
    \/ Teardown

Spec == Init /\ [][Next]_vars

----------------------------------------------------------------------------
\* The power-mode probe on generated pmset output

TextParts ==
    { LowMarker, HighMarker,
      W_lowpowermode \o <<" ">>, W_highpowermode \o <<" ">>,
      <<"1">>, <<"0">>, <<"\n">>, <<BadByte>> }

GenOutputs ==
    {NoLaunch} \cup {Ran(Concat(parts)) : parts \in SeqsUpTo(TextParts, MaxTextParts)}

NextProbe ==
    \/ Construct(NewInputs({NatNoChan}, RepOutputs))
    \/ Refresh(MaxGenRefresh, {0}, {}, {0}, GenOutputs)
    \/ Teardown

SpecProbe == Init /\ [][NextProbe]_vars

----------------------------------------------------------------------------
\* The aggregation on channel lists with generated channel names

NameParts ==
    { <<"C","P","U">>, <<"g","p","u">>, <<"A","n","e">>, <<"c","p">>, <<"U">> }

GenNames ==
    {Concat(parts) : parts \in SeqsUpTo(NameParts, MaxNameParts)}
        \cup {N_CpuEnergy, N_GpuEnergy, N_CpuGpuCombined, N_Ane, N_DisplayBacklight}

NamedItems == {Item(N_CpuEnergy, U_mJ, 3), Item(N_GpuEnergy, U_uJ, 5000),
               Item(N_CpuGpuCombined, U_nJ, 700000), Item(N_DisplayBacklight, U_uJ, 9000),
               Item(NullStr, NullStr, 600)}

\* channel lists with null elements in front, in a row, in between and last
NullDeltas ==
    { Delta(TRUE, <<NullItem, NullItem, Item(N_CpuEnergy, U_mJ, 3), NullItem,
                    Item(N_GpuEnergy, U_uJ, 5000), NullItem>>),
      Delta(TRUE, <<Item(N_Ane, U_nJ, 700000), NullItem, NullItem,
                    Item(N_CpuEnergy, U_padded, 3), Item(N_Ane, U_empty, 40)>>),
      Delta(TRUE, <<NullItem, NullItem, NullItem>>) }

GenDeltas ==
    {Delta(TRUE, <<Item(n, U_uJ, 1000)>>) : n \in GenNames}
        \cup {Delta(TRUE, items) : items \in SeqsUpTo(NamedItems \cup {NullItem}, MaxChannels)}
        \cup NullDeltas

NextChannels ==
    \/ Construct(NewInputs({NatAllOk}, {NoLaunch}))
    \/ Refresh(MaxGenRefresh, Gaps, GenDeltas, {0}, {NoLaunch})
    \/ Teardown

SpecChannels == Init /\ [][NextChannels]_vars

----------------------------------------------------------------------------
\* The aggregation on unit labels, channel values and elapsed times

\* unit labels as IOReportChannelGetUnitLabel returns them
UnitLabels ==
    { U_mJ, U_uJ, U_nJ, U_empty, U_padded, NullStr,
      <<"J">>, <<"M","J">>, <<"m","j">>, <<"k","W","h">>, <<"u","J","\n">> }

\* channel records whose energy is below one millijoule, one joule, two joules
UnitItems ==
    {Item(N_GpuEnergy, u, 1) : u \in UnitLabels}
        \cup {Item(N_CpuEnergy, u, 2000000) : u \in UnitLabels \ {U_mJ, U_padded}}
        \cup { Item(N_CpuEnergy, U_mJ, 1000), Item(N_CpuEnergy, U_padded, 1000),
               Item(N_GpuEnergy, U_uJ, 1000000), Item(N_Ane, U_nJ, 1000000000) }

UnitDeltas ==
    {Delta(TRUE, <<i>>) : i \in UnitItems}
        \cup { Delta(TRUE, <<Item(N_CpuEnergy, U_mJ, 1000), NullItem,
                             Item(N_CpuEnergy, U_uJ, 1000000)>>) }

\* time between two calls, in ms, around the 1 ms clamp
ShortGaps == {0, 1, 2, 7}

NextUnits ==
    \/ Construct(NewInputs({NatAllOk}, {NoLaunch}))
    \/ Refresh(MaxGenRefresh, ShortGaps, UnitDeltas, {0}, {NoLaunch})
    \/ Teardown

SpecUnits == Init /\ [][NextUnits]_vars

----------------------------------------------------------------------------
\* Properties

Called(op) == last.op = op

\* C1: when teardown has completed, every native object that was created
\* (subscription, descriptor set, every snapshot) has been released exactly
\* once: none twice, none never.
C1_EveryHandleReleasedOnce ==
    phase = "dropped" => \A i \in DOMAIN handles : handles[i].rel = 1

\* C2 as stated: after the first refresh() of a facade with a working
\* subscription (the sample succeeds and no native call fails), all four
\* wattages are still 0.
C2_FirstRefreshKeepsZero ==
    (Called("refresh") /\ calls.refresh = 1 /\ last.path \in {"baseline", "delta"}
       /\ ~last.fallback)
        => /\ pd.cpu_power = 0
           /\ pd.gpu_power = 0
           /\ pd.ane_power = 0
           /\ pd.total_system_power = 0

\* C2 amended: the first refresh() only stores a baseline, leaving all four
\* wattages at 0, when the facade held no snapshot from construction; when
\* construction's own sample succeeded the first refresh() already computes a
\* reading (aggregation, or the fallback estimate if the delta fails).
C2_BaselineOnlyWithoutPrior ==
    (Called("refresh") /\ calls.refresh = 1 /\ last.before.subscription # NoSub
       /\ pd.last_sample # last.before.last_sample)
        => IF last.before.last_sample = None
           THEN /\ pd.cpu_power = 0
                /\ pd.gpu_power = 0
                /\ pd.ane_power = 0
                /\ pd.total_system_power = 0
                /\ pd.last_sample_time # NoTime
                /\ ~last.fallback /\ ~last.aggregated
           ELSE last.fallback \/ last.aggregated

C2_Witness ==
    /\ Called("refresh") /\ calls.refresh = 1
    /\ last.before.subscription # NoSub /\ last.before.last_sample = None
    /\ pd.last_sample # None
    /\ pd.total_system_power = 0

\* C3: in every reachable state total_system_power is the f32 sum
\* cpu_power + gpu_power + ane_power, also after a fallback that follows a
\* measured reading.
C3_TotalIsSum ==
    pd.total_system_power = F32Add(F32Add(pd.cpu_power, pd.gpu_power), pd.ane_power)

C3_Witness ==
    /\ Called("refresh") /\ last.fallback
    /\ last.before.ane_power > 0
    /\ pd.ane_power = 0
    /\ pd.total_system_power = pd.cpu_power + pd.gpu_power

\* C4: with the subscription absent, after every refresh() cpu watts are in
\* [2.0, 17.0], gpu watts are 1.0 and ane watts are 0.0.
C4_AbsentGivesFallbackRange ==
    (Called("refresh") /\ pd.subscription = NoSub)
        => /\ pd.cpu_power >= 2000000
           /\ pd.cpu_power <= 17000000
           /\ pd.gpu_power = 1000000
           /\ pd.ane_power = 0

C4_Witness ==
    /\ Called("refresh") /\ pd.subscription = NoSub
    /\ last.usage = 100 /\ pd.cpu_power = 17000000

\* C5: a second refresh() whose sample and delta succeed over an elapsed
\* interval above zero leaves a non-negative wattage in each domain, whatever
\* signed channel values the delta holds.
C5_SecondRefreshNonNegative ==
    (Called("refresh") /\ calls.refresh = 2 /\ last.aggregated /\ last.elapsed > 0)
        => /\ pd.cpu_power >= 0
           /\ pd.gpu_power >= 0
           /\ pd.ane_power >= 0

\* C6: every refresh() runs the power-mode probe exactly once, after the
\* metrics step, and returns Ok, whichever path the metrics step took.
C6_RefreshAlwaysProbesAndReturnsOk ==
    /\ Called("refresh") => /\ last.probes = 1
                            /\ last.steps = <<"metrics", "probe">>
                            /\ last.path \in {"nosub", "samplefail", "baseline", "delta"}
                            /\ last.ret = "Ok"
    /\ phase = "live" => calls.probe = calls.refresh + 1

C6_Witness ==
    /\ Called("refresh") /\ last.path = "delta" /\ last.fallback
    /\ last.probes = 1 /\ last.ret = "Ok"

HasBadByte(bytes) == \E i \in 1..Len(bytes) : bytes[i] = BadByte

\* the wattages of a PowerData
Watts(p) == <<p.cpu_power, p.gpu_power, p.ane_power, p.total_system_power>>

C8_AbsentStaysAbsent ==
    /\ (Called("refresh") /\ last.before.subscription = NoSub) => pd.subscription = NoSub
    /\ (phase = "live" /\ pd.subscription = NoSub)
        => /\ calls.open = 1
           /\ calls.sample = 0
           /\ pd.last_sample = None /\ pd.last_sample_time = NoTime
           /\ \A i \in DOMAIN handles : handles[i].kind \notin {"sample", "delta"}
           /\ Called("refresh") => (last.path = "nosub" /\ last.fallback /\ ~last.aggregated)

C8_Witness ==
    /\ phase = "live" /\ pd.subscription = NoSub
    /\ calls.refresh = 2 /\ calls.sample = 0 /\ last.fallback

\* C9 as stated: output holding "lowpowermode 1" gives LowPower, output holding
\* "highpowermode 1" gives HighPerformance, any other output of a command that
\* ran gives Automatic.
C9_MarkerDecidesMode ==
    ((Called("new") \/ Called("refresh")) /\ last.pmset.launched)
        => /\ Contains(last.pmset.stdout, LowMarker) => pd.power_mode = "LowPower"
           /\ Contains(last.pmset.stdout, HighMarker) => pd.power_mode = "HighPerformance"
           /\ (~Contains(last.pmset.stdout, LowMarker)
                 /\ ~Contains(last.pmset.stdout, HighMarker)) => pd.power_mode = "Automatic"

\* C9 amended: output holding "lowpowermode 1" gives LowPower; output holding
\* "highpowermode 1" and not "lowpowermode 1" gives HighPerformance; any other
\* output of a command that ran gives Automatic; so the mode is one of the
\* three whenever the command ran.
C9_LowMarkerWins ==
    ((Called("new") \/ Called("refresh")) /\ last.pmset.launched)
        => /\ Contains(last.pmset.stdout, LowMarker) => pd.power_mode = "LowPower"
           /\ (Contains(last.pmset.stdout, HighMarker)
                 /\ ~Contains(last.pmset.stdout, LowMarker))
                => pd.power_mode = "HighPerformance"
           /\ (~Contains(last.pmset.stdout, LowMarker)
                 /\ ~Contains(last.pmset.stdout, HighMarker)) => pd.power_mode = "Automatic"
           /\ pd.power_mode \in {"LowPower", "HighPerformance", "Automatic"}

C9_Witness ==
    /\ Called("refresh") /\ last.pmset.launched
    /\ Contains(last.pmset.stdout, LowMarker)
    /\ Contains(last.pmset.stdout, HighMarker)
    /\ pd.power_mode = "LowPower"

\* the claim's rule for one name: the domain it counts toward
NameHas(name, pat) == Contains(ToLowercase(name), pat)
CountsToward(name, dom) ==
    IF dom = "cpu" THEN NameHas(name, S_cpu) /\ ~NameHas(name, S_gpu)
    ELSE IF dom = "gpu" THEN NameHas(name, S_gpu)
    ELSE NameHas(name, S_ane) /\ ~NameHas(name, S_cpu) /\ ~NameHas(name, S_gpu)

\* the joules of the records of a channel list that count toward dom
RECURSIVE JoulesToward(_, _)
JoulesToward(items, dom) ==
    IF items = <<>> THEN 0
    ELSE (IF ~Head(items).null /\ CountsToward(Head(items).name, dom)
          THEN EnergyToJoules(Head(items).value, Trim(Head(items).unit))
          ELSE 0) + JoulesToward(Tail(items), dom)

\* C10: each channel record counts toward at most one domain, chosen by
\* case-insensitive substring match on its name: "cpu" without "gpu" -> CPU,
\* "gpu" (with or without "cpu") -> GPU, otherwise "ane" -> ANE, otherwise no
\* domain; the total holds the three domains only.
C10_OneDomainPerRecord ==
    (Called("refresh") /\ last.aggregated /\ last.delta.has_channels)
        => LET secs == ClampSeconds(last.elapsed)
               cpu  == WattsOf(JoulesToward(last.delta.items, "cpu"), secs)
               gpu  == WattsOf(JoulesToward(last.delta.items, "gpu"), secs)
               ane  == WattsOf(JoulesToward(last.delta.items, "ane"), secs)
           IN  /\ pd.cpu_power = cpu
               /\ pd.gpu_power = gpu
               /\ pd.ane_power = ane
               /\ pd.total_system_power = F32Add(F32Add(cpu, gpu), ane)

C10_Witness ==
    /\ Called("refresh") /\ last.aggregated
    /\ last.delta.items = <<Item(N_CpuGpuCombined, U_uJ, 1000)>>
    /\ pd.cpu_power = 0 /\ pd.gpu_power > 0 /\ pd.ane_power = 0
    /\ pd.total_system_power = pd.gpu_power

\* the claim's divisors: joules (in nanojoules) of a value under a unit label
ClaimedJoules(value, unit) ==
    IF unit = U_mJ THEN value * (1000000000 \div 1000)
    ELSE IF unit = U_uJ THEN value * (1000000000 \div 1000000)
    ELSE IF unit = U_nJ THEN value * (1000000000 \div 1000000000)
    ELSE value * (1000000000 \div 1000000)

\* the claimed joules of the visited records that count toward dom
RECURSIVE ClaimedSum(_, _)
ClaimedSum(records, dom) ==
    IF records = <<>> THEN 0
    ELSE (IF DomainOf(Head(records).name) = dom
          THEN ClaimedJoules(Head(records).value, Head(records).unit)
          ELSE 0) + ClaimedSum(Tail(records), dom)

\* an aggregation over the single record (unit, value)
AggregatedOne(unit, value) ==
    /\ Called("refresh") /\ last.aggregated
    /\ Len(last.visited) = 1
    /\ last.visited[1].unit = unit /\ last.visited[1].value = value

\* C11: a channel's value is divided by 1e3 for unit "mJ", by 1e6 for "uJ",
\* by 1e9 for "nJ" and by 1e6 for every other unit label, the empty one
\* included: 1000 mJ, 1,000,000 uJ and 1,000,000,000 nJ are 1.0 joule each and
\* 2,000,000 of an unrecognized unit are 2.0 joules.
C11_UnitConversion ==
    /\ (Called("refresh") /\ last.aggregated)
        => \A dom \in {"cpu", "gpu", "ane"} :
              last.energy[dom] = ClaimedSum(last.visited, dom)
    /\ AggregatedOne(U_mJ, 1000) => last.energy.cpu = 1000000000
    /\ AggregatedOne(U_uJ, 1000000) => last.energy.gpu = 1000000000
    /\ AggregatedOne(U_nJ, 1000000000) => last.energy.ane = 1000000000
    /\ \A u \in {<<>>, <<"J">>, <<"M","J">>, <<"m","j">>, <<"k","W","h">>} :
          AggregatedOne(u, 2000000) => last.energy.cpu = 2000000000

C11_Witness ==
    /\ AggregatedOne(<<"k","W","h">>, 2000000)
    /\ last.energy = [cpu |-> 2000000000, gpu |-> 0, ane |-> 0]
    /\ last.elapsed = 7
    /\ pd.cpu_power = AsF32(285714286)

\* C12: the elapsed time aggregation divides by is at least 1 ms: for an
\* elapsed time at or below 1 ms, zero included, each domain's watts are its
\* joules / 0.001; for a longer one, its joules / the elapsed seconds; the
\* divisor is never zero.
C12_ElapsedClamped ==
    (Called("refresh") /\ last.aggregated)
        => /\ last.seconds > 0
           /\ last.elapsed >= 0
           /\ LET watts(dom) == IF last.elapsed <= 1 THEN AsF32(last.energy[dom])
                                ELSE AsF32(RoundDiv(last.energy[dom], last.elapsed))
              IN  /\ pd.cpu_power = watts("cpu")
                  /\ pd.gpu_power = watts("gpu")
                  /\ pd.ane_power = watts("ane")

C12_Witness ==
    /\ Called("refresh") /\ last.aggregated
    /\ last.elapsed = 0
    /\ last.energy.cpu = 1000000000
    /\ pd.cpu_power = 1000000000

\* a step that is one refresh() call
RefreshStep == phase = "live" /\ phase' = "live" /\ calls'.refresh = calls.refresh + 1

\* the fallback estimate for a mean utilisation of `usage` percent
IsFallbackReading(p, usage) ==
    /\ p.cpu_power = AsF32(BasePowerUW + (usage * MaxCpuPowerUW) \div 100)
    /\ p.gpu_power = GpuFallbackUW
    /\ p.ane_power = 0
    /\ p.total_system_power = F32Add(p.cpu_power, p.gpu_power)

\* C13: a refresh() whose sample fails while a subscription exists reports
\* the fallback estimate and leaves the snapshot state alone: the retained
\* snapshot and its timestamp are what they were, no native object is
\* acquired or released, the subscription is kept; and every refresh() of a
\* facade with a subscription, the one after a failed sample included, takes
\* a sample.
C13_SampleFailureLeavesSnapshot ==
    [][ /\ (RefreshStep /\ last'.path = "samplefail")
            => /\ pd.subscription # NoSub
               /\ pd'.subscription = pd.subscription
               /\ pd'.last_sample = pd.last_sample
               /\ pd'.last_sample_time = pd.last_sample_time
               /\ handles' = handles
               /\ last'.fallback /\ ~last'.aggregated
               /\ IsFallbackReading(pd', last'.usage)
        /\ (RefreshStep /\ pd.subscription # NoSub)
            => calls'.sample = calls.sample + 1 ]_vars

C13_Witness ==
    /\ Called("refresh") /\ last.path = "samplefail"
    /\ calls.refresh = 2 /\ calls.sample = 3
    /\ Cardinality({i \in DOMAIN handles : handles[i].kind = "sample"}) = 1
    /\ pd.last_sample # None
    /\ handles[pd.last_sample].rel = 0
    /\ pd.last_sample_time = 0

\* a refresh() that found a snapshot retained, took a new one and got no delta
DeltaFailed == Called("refresh") /\ last.path = "delta" /\ ~last.delta.ok

\* C14: when a snapshot is retained, the sample succeeds and the native delta
\* operation returns nothing, aggregation does not run, the reading is the
\* fallback estimate, the prior snapshot has been released exactly once, and
\* the new snapshot is retained with its own time, the time it was taken.
C14_DeltaFailureFallsBack ==
    DeltaFailed
        => /\ ~last.aggregated /\ last.fallback
           /\ IsFallbackReading(pd, last.usage)
           /\ handles[last.before.last_sample].rel = 1
           /\ pd.last_sample \notin {None, last.before.last_sample}
           /\ handles[pd.last_sample] = [kind |-> "sample", rel |-> 0]
           /\ pd.last_sample_time = last.sampled_at

\* the snapshots (IOReportCreateSamples results) created so far
Snapshots == {i \in DOMAIN handles : handles[i].kind = "sample"}
LiveSnapshots == {i \in Snapshots : handles[i].rel = 0}

\* C15: between calls at most one snapshot is live, and it is the retained
\* one; a refresh() that replaces the retained snapshot has released the old
\* one exactly once; no snapshot is ever released twice, so the one handed to
\* the next delta computation or to teardown was never released before, and
\* teardown leaves every snapshot released exactly once.
C15_OneLiveSnapshot ==
    /\ phase = "live"
        => /\ LiveSnapshots = (IF pd.last_sample = None THEN {} ELSE {pd.last_sample})
           /\ \A i \in Snapshots \ LiveSnapshots : handles[i].rel = 1
    /\ (Called("refresh") /\ pd.last_sample # last.before.last_sample
           /\ last.before.last_sample # None)
        => /\ handles[last.before.last_sample].rel = 1
           /\ last.before.last_sample \in Snapshots
           /\ pd.last_sample \in Snapshots
           /\ pd.last_sample > last.before.last_sample
    /\ phase = "dropped" => \A i \in Snapshots : handles[i].rel = 1

C15_Witness ==
    /\ Called("refresh") /\ calls.refresh = 2
    /\ Cardinality(Snapshots) = 3
    /\ LiveSnapshots = {pd.last_sample}
    /\ last.before.last_sample \in Snapshots \ LiveSnapshots

\* C16: when an aggregation has ended, every delta obtained from
\* IOReportCreateSamplesDelta has been released exactly once, whatever its
\* channel list holds, also when it has no "IOReportChannels" field.
C16_DeltaReleasedOnce ==
    (Called("refresh") /\ last.aggregated)
        => /\ ~last.delta.has_channels => last.visited = <<>>
           /\ \A i \in DOMAIN handles : handles[i].kind = "delta" => handles[i].rel = 1

\* the native objects of one kind
OfKind(kind) == {i \in DOMAIN handles : handles[i].kind = kind}

\* C17: IOReportSubscription::new either succeeds, holding the descriptor set
\* and the subscription unreleased and everything else it acquired released
\* once, or returns None with every object it acquired released exactly once,
\* at each failure point: the channel query returns nothing, the group has no
\* channel list, the mutable copy fails, the subscription is not created.
C17_OpenReleasesOnFailure ==
    Called("new")
        => /\ last.open \in {"chan", "key", "copy", "sub", "ok"}
           /\ last.open = "ok" <=> pd.subscription # NoSub
           /\ last.open # "ok" => \A i \in DOMAIN handles : handles[i].rel = 1
           /\ last.open = "chan" => OfKind("chan") = {}
           /\ last.open \in {"key", "copy"}
                => Cardinality(OfKind("chan")) = 1 /\ OfKind("channels") = {}
           /\ last.open = "sub"
                => Cardinality(OfKind("channels")) = 1 /\ OfKind("subscription") = {}
           /\ last.open = "ok"
                => /\ OfKind("subscription") = {pd.subscription.subscription}
                   /\ OfKind("channels") = {pd.subscription.channels}
                   /\ handles[pd.subscription.subscription].rel = 0
                   /\ handles[pd.subscription.channels].rel = 0
                   /\ \A i \in OfKind("cfstr") \cup OfKind("chan") : handles[i].rel = 1

C17_Witness ==
    /\ Called("new") /\ last.open = "sub"
    /\ pd.subscription = NoSub
    /\ \E i \in OfKind("channels") : handles[i].rel = 1
    /\ \E i \in OfKind("chan") : handles[i].rel = 1

\* C18: the timestamp stored with the retained snapshot is the clock at which
\* that snapshot was taken, and the elapsed time of an aggregation is the time
\* from the taking of the prior snapshot to the taking of the new one.
C18_TimestampIsCaptureTime ==
    /\ (phase = "live" /\ pd.last_sample # None) => pd.last_sample_time = last.captured
    /\ (Called("refresh") /\ last.aggregated)
        => last.elapsed = last.sampled_at - last.prior_captured

\* the elements of a channel list that are not null, in list order
RECURSIVE NonNull(_)
NonNull(items) ==
    IF items = <<>> THEN <<>>
    ELSE IF Head(items).null THEN NonNull(Tail(items))
    ELSE <<Head(items)>> \o NonNull(Tail(items))

\* C19: the decoder ends on every delta and hands the loop exactly one record
\* per non-null element of the channel list, in list order: null elements in
\* any position are passed over, and the sums hold every later element.
C19_OneRecordPerNonNull ==
    (Called("refresh") /\ last.aggregated /\ last.delta.has_channels)
        => LET expect == NonNull(last.delta.items)
           IN  /\ Len(last.visited) = Len(expect)
               /\ \A k \in 1..Len(expect) :
                     /\ last.visited[k].name = FromCfstr(expect[k].name)
                     /\ last.visited[k].unit = Trim(FromCfstr(expect[k].unit))
                     /\ last.visited[k].value = expect[k].value
               /\ \A dom \in {"cpu", "gpu", "ane"} :
                     last.energy[dom] = JoulesToward(last.delta.items, dom)

C19_Witness ==
    /\ Called("refresh") /\ last.aggregated
    /\ last.delta.items = <<NullItem, NullItem, Item(N_CpuEnergy, U_mJ, 3), NullItem,
                            Item(N_GpuEnergy, U_uJ, 5000), NullItem>>
    /\ Len(last.visited) = 2
    /\ last.visited[1].value = 3 /\ last.visited[2].value = 5000
    /\ last.energy = [cpu |-> 3000000, gpu |-> 5000000, ane |-> 0]

\* C20: the retained snapshot and its timestamp are both present or both
\* absent; a snapshot is retained only by a facade with a subscription; a call
\* on a facade that retains a snapshot returns with a snapshot retained.
C20_BaselineStateConsistent ==
    /\ pd.last_sample = None <=> pd.last_sample_time = NoTime
    /\ pd.last_sample # None
        => (pd.subscription # NoSub /\ pd.last_sample \in Snapshots)
    /\ last.before.last_sample # None
        => (pd.last_sample # None /\ pd.last_sample_time >= last.before.last_sample_time)

C20_Witness ==
    /\ Called("refresh") /\ last.path = "samplefail"
    /\ calls.refresh = 2 /\ calls.sample = 3
    /\ Cardinality(Snapshots) = 1
    /\ last.before.last_sample # None
    /\ pd.last_sample # None /\ pd.last_sample_time = 7

====
